---- MODULE Spec2Model ----
(***************************************************************************)
(* Dual-storage persistence layer of the registration backend:             *)
(*   - DualStorage (users.json + MongoDB, best-effort secondary write)     *)
(*   - FileDatabase (users.json only)                                      *)
(*   - the MongoDB-only register route                                     *)
(*   - DataMigration (migrate.js: to-mongo / to-file)                      *)
(* Specifications: Spec (the servers, one request at a time), SpecReg      *)
(* (the dual register route with its validation), SpecRead (the dual read  *)
(* routes), SpecConc (overlapping requests and to-file runs), SpecPage     *)
(* (the file server's listing), SpecMig (the migration tool), SpecRace     *)
(* (registrations racing on the users file), SpecCrash (a process crash    *)
(* between createUser's two file writes), SpecStart (requests during       *)
(* start-up), SpecMongo (the MongoDB routes).                              *)
(* Every await of the source is a step boundary; a step is the code that   *)
(* runs between two awaits.                                                *)
(***************************************************************************)
EXTENDS Integers, Sequences, FiniteSets, TLC

\* ---------------------------------------------------------------- bounds
\* operations (requests, migration runs) started in one behaviour
MaxOps == 3
\* file-system failures injected in one behaviour
MaxFaults == 1
\* request slots of the server
NumProcs == 2
\* records in the users file a listing is computed from
MaxUsers == 3

Procs == 1..NumProcs

\* ------------------------------------------------------------- data model
\* Stored (canonical) e-mail addresses and the addresses a payload may carry.
Emails == {"a@x.com", "b@x.com", "c@x.info"}
InputEmails == Emails \cup {"A@X.COM"}

\* String.prototype.toLowerCase on the addresses above.
toLowerCase(e) == IF e = "A@X.COM" THEN "a@x.com" ELSE e

\* Length of the last dot-separated label of an address.
tldLength(e) == IF toLowerCase(e) = "c@x.info" THEN 4 ELSE 3

\* userSchema.email.match: /^\w+([.-]?\w+)*@\w+([.-]?\w+)*(\.\w{2,3})+$/
\* accepts an address only when its last label has 2 or 3 characters.
emailMatch(e) == tldLength(e) \in 2..3

\* A password value: the plaintext it derives from and how many times bcrypt
\* has been applied to it (0 = plaintext).
PlainPassword == [plain |-> "secret1", rounds |-> 0]

\* bcrypt.hash(value, salt): one more irreversible round over the value given.
bcryptHash(pw) == [pw EXCEPT !.rounds = @ + 1]

\* Identifiers: uuidv4() of the coordinator, ObjectId of MongoDB.
uuidv4(n) == [gen |-> "uuid", n |-> n]
ObjectId(n) == [gen |-> "oid", n |-> n]
NoId == [gen |-> "none", n |-> 0]

NoUser == [_id |-> NoId, email |-> "", password |-> PlainPassword,
           termsAccepted |-> FALSE, status |-> "", createdAt |-> 0]

\* const { password, ...userWithoutPassword } = newUser
userWithoutPassword(u) == [f \in (DOMAIN u) \ {"password"} |-> u[f]]

NoView == userWithoutPassword(NoUser)

\* Error messages, as word sequences, and String.prototype.includes.
ConflictMessage == <<"User", "with", "this", "email", "already", "exists">>
ENOENT == <<"ENOENT:", "no", "such", "file", "or", "directory">>
JSONParseError == <<"Unexpected", "end", "of", "JSON", "input">>
ENOSPC == <<"ENOSPC:", "no", "space", "left", "on", "device">>
ReadErrors == {ENOENT, JSONParseError}
WriteErrors == {ENOSPC}
NoMessage == <<>>

includes(msg, pat) ==
  \E i \in 1..(Len(msg) - Len(pat) + 1) : SubSeq(msg, i, i + Len(pat) - 1) = pat

\* JSON numbers as JavaScript sees them after JSON.parse: a number, a missing
\* property (undefined), null, or NaN before serialisation.
Num(n) == [t |-> "number", v |-> n]
Undefined == [t |-> "undefined", v |-> 0]
Null == [t |-> "null", v |-> 0]
NaN == [t |-> "NaN", v |-> 0]

\* x += 1
plusOne(x) ==
  CASE x.t = "number" -> Num(x.v + 1)
    [] x.t = "null" -> Num(1)
    [] OTHER -> NaN

\* JSON.stringify of a numeric property: NaN is written as null.
stringify(x) == IF x.t = "NaN" THEN Null ELSE x

\* A value of a request body as JavaScript sees it: its typeof and its text.
JsBoolean(b) == [typeof |-> "boolean", text |-> IF b THEN "true" ELSE "false"]
JsString(s) == [typeof |-> "string", text |-> s]
JsNumber(s) == [typeof |-> "number", text |-> s]
JsUndefined == [typeof |-> "undefined", text |-> ""]
JsNull == [typeof |-> "null", text |-> ""]

\* The terms_accepted values a request may carry.
TermsValues == {JsBoolean(TRUE), JsBoolean(FALSE), JsString("true"), JsString("false"),
                JsString("1"), JsString("0"), JsNumber("1"), JsNumber("0"), JsUndefined}

\* The address values a request may carry: absent, empty, a text.
AddressValues == {JsUndefined, JsString(""), JsString("12 Main St")}

\* Emails held by a sequence of file records / a set of documents.
fileEmails(users) == {users[i].email : i \in 1..Len(users)}
docEmails(docs) == {d.email : d \in docs}

\* ------------------------------------------------------------------ state
VARIABLES
  initPc,          \* DualStorage.init(): "file" -> "mongo" -> "done"
  mongooseLoaded,  \* require('mongoose') / require('./User') succeeded
  mongoConnected,  \* DualStorage.mongoConnected
  mongoUp,         \* the MongoDB server is reachable (environment)
  usersFile,       \* data/users.json: sequence of user records
  statsFile,       \* data/stats.json
  mongoDocs,       \* the users collection of MongoDB
  call,            \* per request slot: program counter and locals
  resp,            \* per request slot: the HTTP response sent
  hist,            \* per request slot: what happened during the call (ghost)
  mig,             \* the migration tool's run (migrate.js)
  prevRun,         \* summary of the last finished to-mongo run (ghost)
  nextId,          \* source of fresh identifiers
  ops,             \* operations started
  faults,          \* file-system failures injected
  listing          \* the answer of the last GET / of the file server

vars == <<initPc, mongooseLoaded, mongoConnected, mongoUp, usersFile, statsFile,
          mongoDocs, call, resp, hist, mig, prevRun, nextId, ops, faults, listing>>

serverVars == <<initPc, mongooseLoaded, mongoConnected>>
storeVars == <<usersFile, statsFile, mongoDocs>>
migVars == <<mig, prevRun>>

\* initialStats of DualStorage.initFileStorage: it has no activeUsers property.
initialStats == [totalUsers |-> Num(0), totalRegistrations |-> Num(0),
                 activeUsers |-> Undefined]

IdleCall == [pc |-> "idle", kind |-> "none", email |-> "",
             terms |-> JsUndefined, address |-> JsUndefined, newUser |-> NoUser,
             newAddress |-> JsUndefined, users |-> <<>>, stats |-> initialStats]
NoResp == [status |-> 0, user |-> NoView, mode |-> "", message |-> NoMessage]
NoHist == [file0 |-> <<>>, mongo0 |-> {}, stats0 |-> initialStats,
           readOk |-> FALSE, faultAt |-> {}, mongoTries |-> 0,
           mongoResult |-> "none", statsRuns |-> 0, sawUp |-> FALSE,
           source |-> "none"]

IdleMig == [pc |-> "idle", mode |-> "none", conn |-> "closed", fileUsers |-> <<>>,
            mongoUsers |-> <<>>, i |-> 0, migrated |-> {}, skipped |-> {},
            errored |-> {}, outcome |-> "none", file0 |-> <<>>, mongo0 |-> {},
            clean |-> TRUE, succ |-> FALSE, connected |-> "none"]
NoRun == [valid |-> FALSE, migrated |-> {}, file |-> <<>>, mongoAfter |-> {}]

NoListing == [page |-> 0, limit |-> 0, status |-> "", read |-> <<>>, users |-> <<>>,
              total |-> 0, totalPages |-> 0]

\* No operation is in flight.
Quiet ==
  /\ initPc = "done"
  /\ \A p \in Procs : call[p].pc = "idle"
  /\ mig.pc = "idle"

\* The free slot a new request is given.
FreeSlot(p) == call[p].pc = "idle" /\ \A q \in Procs : q < p => call[q].pc # "idle"

\* ------------------------------------------------- DualStorage (coordinator)
\* DualStorage.init -> initFileStorage: users.json = [] and stats.json =
\* initialStats are created when they do not exist (a fresh data directory);
\* files found by fs.access (a restart) are left as they are.
initFileStorage ==
  /\ initPc \in {"file", "restart"}
  /\ initPc' = "mongo"
  /\ IF initPc = "file"
     THEN usersFile' = <<>> /\ statsFile' = initialStats
     ELSE UNCHANGED <<usersFile, statsFile>>
  /\ UNCHANGED <<listing, mongooseLoaded, mongoConnected, mongoUp, mongoDocs, call, resp,
                 hist, mig, prevRun, nextId, ops, faults>>

\* DualStorage.init -> initMongoStorage (only `if (mongoose)`): the flag is the
\* outcome of the connection attempt.
initMongoStorage ==
  /\ initPc = "mongo"
  /\ initPc' = "done"
  /\ mongoConnected' = (mongooseLoaded /\ mongoUp)
  /\ UNCHANGED <<listing, mongooseLoaded, mongoUp, storeVars, call, resp, hist, mig,
                 prevRun, nextId, ops, faults>>

\* getStorageStatus().mode
getStorageStatus == IF mongoConnected THEN "dual" ELSE "file-only"

\* The newUser object of createUser: a fresh uuid, the lowercased e-mail, the
\* password hashed once.
\* termsAccepted: userData.termsAccepted === true; status: 'active';
\* createdAt: the time of the call (a logical clock, read with the identifier).
buildNewUserKeepCase(userData, id) ==
  [_id |-> id, email |-> userData.email, password |-> bcryptHash(PlainPassword),
   termsAccepted |-> (userData.termsAccepted = JsBoolean(TRUE)),
   status |-> "active", createdAt |-> id.n]
buildNewUser(userData, id) ==
  [_id |-> id, email |-> toLowerCase(userData.email),
   password |-> bcryptHash(PlainPassword),
   termsAccepted |-> (userData.termsAccepted = JsBoolean(TRUE)),
   status |-> "active", createdAt |-> id.n]

\* preprocessFormData, for terms_accepted: a string becomes the boolean
\* `lowercased === 'true' || value === '1'`, a number the boolean `value === 1`;
\* undefined and booleans are left as they are.
preprocessFormData(v) ==
  CASE v.typeof = "string" -> JsBoolean(v.text \in {"true", "1"})
    [] v.typeof = "number" -> JsBoolean(v.text = "1")
    [] OTHER -> v

\* registrationSchema.terms_accepted: required, and a boolean, or one of the
\* strings 'true' 'false' '1' '0', or one of the numbers 0 1.
registrationSchema(v) ==
  \/ v.typeof = "boolean"
  \/ v.typeof = "string" /\ v.text \in {"true", "false", "1", "0"}
  \/ v.typeof = "number" /\ v.text \in {"0", "1"}

\* preprocessFormData, for the optional text fields it lists (address among
\* them): `if (processed[field] === '') processed[field] = null`.
emptyToNull(v) == IF v = JsString("") THEN JsNull ELSE v

\* registrationSchema.address: Joi.string().trim().max(500).allow('').optional()
\* accepts an absent value and strings, the empty one included; null is not
\* among the values allowed.
addressSchema(v) == v.typeof \in {"undefined", "string"}

\* newUser.address: userData.address || null
orNull(v) == IF v.typeof \in {"undefined", "null"} \/ v = JsString("") THEN JsNull ELSE v

ValidationFailed == <<"Validation", "failed">>

\* The order of the three awaited stages of createUser.
createUserOrderMongoFirst == <<"saveToMongo", "saveToFile", "updateStats">>
createUserOrder == <<"saveToFile", "saveToMongo", "updateStats">>

stepAfter(stage) ==
  LET i == CHOOSE j \in 1..Len(createUserOrder) : createUserOrder[j] = stage
  IN IF i < Len(createUserOrder) THEN createUserOrder[i + 1] ELSE "return"

\* users.find(u => u.email === userData.email) of saveToFile
existingUserById(users, u) == \E i \in 1..Len(users) : users[i]._id = u._id
existingUser(users, u) == \E i \in 1..Len(users) : users[i].email = u.email

\* The catch block of the dual register route: 409 for a message that includes
\* 'already exists', 500 otherwise.
registerErrorStatusAlways409(msg) == 409
registerErrorStatus(msg) ==
  IF includes(msg, <<"already", "exists">>) THEN 409 ELSE 500

\* The catch block of saveToMongo: the error is logged and not rethrown.
saveToMongoCatchRethrow == "rethrow"
saveToMongoCatch == "swallow"

\* stats.totalUsers = users.length
totalUsersKept(stats, users) == stats.totalUsers
totalUsersOf(stats, users) == Num(Len(users))

\* The 201 response of the register route: createUser's return value and
\* getStorageStatus() at the time of the response.
Created(u) ==
  [status |-> 201, user |-> userWithoutPassword(u), mode |-> getStorageStatus,
   message |-> NoMessage]

\* An error thrown out of createUser reaches the route's catch block.
Throw(p, c, msg) ==
  /\ call' = [call EXCEPT ![p] = [c EXCEPT !.pc = "done"]]
  /\ resp' = [resp EXCEPT ![p] = [status |-> registerErrorStatus(msg),
                                  user |-> NoView, mode |-> "", message |-> msg]]

\* A stage of createUser has finished: go to the next one, or return.
Complete(p, c, stage) ==
  IF stepAfter(stage) = "return"
  THEN /\ call' = [call EXCEPT ![p] = [c EXCEPT !.pc = "done"]]
       /\ resp' = [resp EXCEPT ![p] = Created(c.newUser)]
  ELSE /\ call' = [call EXCEPT ![p] = [c EXCEPT !.pc = stepAfter(stage)]]
       /\ UNCHANGED resp

\* The dual register route up to its first await: preprocessFormData, the
\* schema's validation (400 on error), userData, and createUser up to its first
\* store access (hash, build newUser). The address of newUser is kept beside
\* the record, in newAddress.
register_start(p, body) ==
  LET processed == preprocessFormData(body.terms_accepted)
      address == emptyToNull(body.address)
      userData == [email |-> body.email, termsAccepted |-> processed]
  IN
  /\ FreeSlot(p)
  /\ ops < MaxOps
  /\ ops' = ops + 1
  /\ hist' = [hist EXCEPT ![p] =
       [NoHist EXCEPT !.file0 = usersFile, !.mongo0 = mongoDocs,
                      !.stats0 = statsFile, !.sawUp = mongoUp]]
  /\ IF registrationSchema(processed) /\ addressSchema(address)
     THEN /\ nextId' = nextId + 1
          /\ call' = [call EXCEPT ![p] =
               [IdleCall EXCEPT !.pc = createUserOrder[1], !.kind = "dual",
                                !.email = body.email, !.terms = body.terms_accepted,
                                !.address = body.address,
                                !.newUser = buildNewUser(userData, uuidv4(nextId)),
                                !.newAddress = orNull(address)]]
          /\ UNCHANGED resp
     ELSE /\ call' = [call EXCEPT ![p] =
               [IdleCall EXCEPT !.pc = "done", !.kind = "dual", !.email = body.email,
                                !.terms = body.terms_accepted,
                                !.address = body.address]]
          /\ resp' = [resp EXCEPT ![p] = [status |-> 400, user |-> NoView, mode |-> "",
                                          message |-> ValidationFailed]]
          /\ UNCHANGED nextId
  /\ UNCHANGED <<listing, serverVars, mongoUp, storeVars, migVars, faults>>

\* A registration whose payload accepts the terms and has no address.
createUser_start(p, e) ==
  register_start(p, [email |-> e, terms_accepted |-> JsBoolean(TRUE),
                     address |-> JsUndefined])

\* saveToFile: readFile + JSON.parse, the duplicate check and users.push. Before
\* initFileStorage has created it in a fresh data directory, users.json does
\* not exist and readFile fails.
saveToFile_read(p) ==
  /\ call[p].pc = "saveToFile"
  /\ \/ \E err \in ReadErrors :
          /\ faults < MaxFaults
          /\ faults' = faults + 1
          /\ hist' = [hist EXCEPT ![p].faultAt = @ \cup {"saveToFile"}]
          /\ Throw(p, call[p], err)
     \/ /\ initPc = "file"
        /\ hist' = [hist EXCEPT ![p].faultAt = @ \cup {"saveToFile"}]
        /\ Throw(p, call[p], ENOENT)
        /\ UNCHANGED faults
     \/ /\ initPc # "file"
        /\ existingUser(usersFile, call[p].newUser)
        /\ hist' = [hist EXCEPT ![p].readOk = TRUE]
        /\ Throw(p, call[p], ConflictMessage)
        /\ UNCHANGED faults
     \/ /\ initPc # "file"
        /\ ~existingUser(usersFile, call[p].newUser)
        /\ hist' = [hist EXCEPT ![p].readOk = TRUE]
        /\ call' = [call EXCEPT ![p].pc = "saveToFile_write",
                                ![p].users = Append(usersFile, call[p].newUser)]
        /\ UNCHANGED <<resp, faults>>
  /\ UNCHANGED <<listing, serverVars, mongoUp, storeVars, migVars, nextId, ops>>

\* fs.writeFile(this.usersFile, JSON.stringify(users, null, 2)): the file's
\* content is replaced by the array given, whatever the file holds by then.
writeFileMerged(current, data) ==
  current \o SelectSeq(data, LAMBDA u : \A i \in 1..Len(current) : current[i] # u)
writeFile(current, data) == data

\* saveToFile: writeFile of the whole array.
saveToFile_write(p) ==
  /\ call[p].pc = "saveToFile_write"
  /\ \/ \E err \in WriteErrors :
          /\ faults < MaxFaults
          /\ faults' = faults + 1
          /\ hist' = [hist EXCEPT ![p].faultAt = @ \cup {"saveToFile"}]
          /\ Throw(p, call[p], err)
          /\ UNCHANGED usersFile
     \/ /\ usersFile' = writeFile(usersFile, call[p].users)
        /\ Complete(p, call[p], "saveToFile")
        /\ UNCHANGED <<hist, faults>>
  /\ UNCHANGED <<listing, serverVars, mongoUp, statsFile, mongoDocs, migVars, nextId, ops>>

\* --------------------------------------------------------- the User model
ValidationError == <<"User", "validation", "failed">>
MongoNetworkError == <<"buffering", "timed", "out">>
E11000 == <<"E11000", "duplicate", "key", "error">>

\* Schema validation run by save(): the e-mail must match userSchema's pattern
\* and termsAccepted's validator wants `value === true`.
validateUser(data) == emailMatch(data.email) /\ data.termsAccepted = TRUE

\* userSchema.pre('save'): a new document's password counts as modified, so the
\* value given is hashed.
preSave(pw) == bcryptHash(pw)

\* The options given to `new mongoose.Schema(definition, options)`: toJSON and
\* toObject each with a transform that deletes ret.password.
schemaOptions ==
  [toJSON |-> [transform |-> "delete ret.password", virtuals |-> FALSE],
   toObject |-> [transform |-> "delete ret.password", virtuals |-> FALSE]]

\* Schema.prototype.set(key, value): this.options[key] = value. The object
\* given becomes the option; nothing of the option's former value is kept.
schemaSet(options, key, value) == [options EXCEPT ![key] = value]

\* The options of userSchema once User.js has run: the constructor's options,
\* then userSchema.set('toJSON', { virtuals: true }).
userSchema ==
  schemaSet(schemaOptions, "toJSON", [transform |-> "none", virtuals |-> TRUE])

\* Document.prototype.toJSON, which res.json() calls: the document's fields,
\* passed through the transform of the schema's toJSON option when it has one.
\* (The virtual profilePhotoURL is null for the documents here.)
toJSON(doc) ==
  IF userSchema.toJSON.transform = "delete ret.password"
  THEN userWithoutPassword(doc) ELSE doc

\* User.findOne({ email })
findOneNever(docs, email) == FALSE
findOne(docs, email) == \E d \in docs : d.email = email

\* new User(data).save() against the collection `docs`: validation, then the
\* pre-save hook, then the insert under the unique index on email. MongoDB
\* assigns the _id.
save(docs, data, oid) ==
  IF ~validateUser(data) THEN [ok |-> FALSE, error |-> ValidationError, docs |-> docs]
  ELSE IF ~mongoUp THEN [ok |-> FALSE, error |-> MongoNetworkError, docs |-> docs]
  ELSE IF toLowerCase(data.email) \in docEmails(docs)
  THEN [ok |-> FALSE, error |-> E11000, docs |-> docs]
  ELSE [ok |-> TRUE, error |-> NoMessage,
        docs |-> docs \cup {[_id |-> oid, email |-> toLowerCase(data.email),
                             password |-> preSave(data.password),
                             termsAccepted |-> data.termsAccepted,
                             status |-> data.status, createdAt |-> data.createdAt]}]

\* saveToMongo, reached only `if (this.mongoConnected && User)`: mongoData is
\* newUser without its _id; any error of save() ends in the catch block.
saveToMongo(p) ==
  /\ call[p].pc = "saveToMongo"
  /\ IF mongoConnected /\ mongooseLoaded
     THEN LET r == save(mongoDocs, call[p].newUser, ObjectId(nextId)) IN
          /\ mongoDocs' = r.docs
          /\ nextId' = nextId + 1
          /\ hist' = [hist EXCEPT ![p].mongoTries = @ + 1,
                                  ![p].mongoResult = IF r.ok THEN "saved" ELSE r.error[1]]
          /\ IF r.ok \/ saveToMongoCatch = "swallow"
             THEN Complete(p, call[p], "saveToMongo")
             ELSE Throw(p, call[p], r.error)
     ELSE /\ hist' = [hist EXCEPT ![p].mongoResult = "skipped"]
          /\ Complete(p, call[p], "saveToMongo")
          /\ UNCHANGED <<mongoDocs, nextId>>
  /\ UNCHANGED <<listing, serverVars, mongoUp, usersFile, statsFile, migVars, ops, faults>>

\* updateStats: read stats.json, count the registration. Every error of
\* updateStats is caught and not rethrown.
updateStats_read(p) ==
  /\ call[p].pc = "updateStats"
  /\ \/ /\ faults < MaxFaults
        /\ faults' = faults + 1
        /\ hist' = [hist EXCEPT ![p].statsRuns = @ + 1,
                                ![p].faultAt = @ \cup {"statsFile"}]
        /\ Complete(p, call[p], "updateStats")
     \/ /\ hist' = [hist EXCEPT ![p].statsRuns = @ + 1]
        /\ call' = [call EXCEPT ![p].pc = "updateStats_users",
                                ![p].stats = [statsFile EXCEPT
                                   !.totalRegistrations = plusOne(@)]]
        /\ UNCHANGED <<resp, faults>>
  /\ UNCHANGED <<listing, serverVars, mongoUp, storeVars, migVars, nextId, ops>>

\* updateStats: read users.json, stats.totalUsers = users.length.
updateStats_users(p) ==
  /\ call[p].pc = "updateStats_users"
  /\ \/ /\ faults < MaxFaults
        /\ faults' = faults + 1
        /\ hist' = [hist EXCEPT ![p].faultAt = @ \cup {"updateStats_users"}]
        /\ Complete(p, call[p], "updateStats")
     \/ /\ call' = [call EXCEPT ![p].pc = "updateStats_write",
                                ![p].stats.totalUsers =
                                   totalUsersOf(call[p].stats, usersFile)]
        /\ UNCHANGED <<resp, hist, faults>>
  /\ UNCHANGED <<listing, serverVars, mongoUp, storeVars, migVars, nextId, ops>>

\* updateStats: write stats.json.
updateStats_write(p) ==
  /\ call[p].pc = "updateStats_write"
  /\ \/ /\ faults < MaxFaults
        /\ faults' = faults + 1
        /\ hist' = [hist EXCEPT ![p].faultAt = @ \cup {"statsFile"}]
        /\ UNCHANGED statsFile
     \/ /\ statsFile' = [f \in DOMAIN call[p].stats |-> stringify(call[p].stats[f])]
        /\ UNCHANGED <<hist, faults>>
  /\ Complete(p, call[p], "updateStats")
  /\ UNCHANGED <<listing, serverVars, mongoUp, usersFile, mongoDocs, migVars, nextId, ops>>

\* The documents of a find({}) in the collection's natural (insertion) order;
\* ObjectIds grow with insertion.
RECURSIVE naturalOrder(_)
naturalOrder(docs) ==
  IF docs = {} THEN <<>>
  ELSE LET first == CHOOSE d \in docs : \A o \in docs : d._id.n <= o._id.n
       IN <<first>> \o naturalOrder(docs \ {first})

\* --------------------------------------------- the read path of DualStorage
InternalServerError == <<"Internal", "server", "error">>
UserNotFound == <<"User", "not", "found">>

\* GET /:email -> dualStorage.findUserByEmail(req.params.email), up to its
\* first await.
dualFind_start(p, e) ==
  /\ FreeSlot(p)
  /\ ops < MaxOps
  /\ ops' = ops + 1
  /\ call' = [call EXCEPT ![p] =
       [IdleCall EXCEPT !.pc = "find_mongo", !.kind = "find", !.email = e]]
  /\ hist' = [hist EXCEPT ![p] =
       [NoHist EXCEPT !.file0 = usersFile, !.mongo0 = mongoDocs,
                      !.stats0 = statsFile, !.sawUp = mongoUp]]
  /\ UNCHANGED <<listing, serverVars, mongoUp, storeVars, resp, migVars, nextId, faults>>

\* findUserByEmail: `if (this.mongoConnected && User)` User.findOne({ email:
\* email.toLowerCase() }); a document found is returned. An error of the query
\* goes to the catch block, which rethrows; the route answers 500.
dualFind_mongo(p) ==
  /\ call[p].pc = "find_mongo"
  /\ IF mongoConnected /\ mongooseLoaded
     THEN IF ~mongoUp
          THEN /\ hist' = [hist EXCEPT ![p].mongoTries = @ + 1,
                                       ![p].mongoResult = MongoNetworkError[1]]
               /\ call' = [call EXCEPT ![p].pc = "done"]
               /\ resp' = [resp EXCEPT ![p] = [status |-> 500, user |-> NoView,
                                               mode |-> "", message |-> InternalServerError]]
          ELSE IF findOne(mongoDocs, toLowerCase(call[p].email))
          THEN LET d == CHOOSE d \in mongoDocs : d.email = toLowerCase(call[p].email) IN
               /\ hist' = [hist EXCEPT ![p].mongoTries = @ + 1,
                                       ![p].mongoResult = "found", ![p].source = "mongo"]
               /\ call' = [call EXCEPT ![p].pc = "done"]
               /\ resp' = [resp EXCEPT ![p] = [status |-> 200,
                                               user |-> userWithoutPassword(d),
                                               mode |-> getStorageStatus,
                                               message |-> NoMessage]]
          ELSE /\ hist' = [hist EXCEPT ![p].mongoTries = @ + 1,
                                       ![p].mongoResult = "empty"]
               /\ call' = [call EXCEPT ![p].pc = "find_file"]
               /\ UNCHANGED resp
     ELSE /\ hist' = [hist EXCEPT ![p].mongoResult = "skipped"]
          /\ call' = [call EXCEPT ![p].pc = "find_file"]
          /\ UNCHANGED resp
  /\ UNCHANGED <<listing, serverVars, mongoUp, storeVars, migVars, nextId, ops, faults>>

\* findUserByEmail, the fallback: read users.json, users.find(u => u.email ===
\* email.toLowerCase()); the route answers 404 for null. An error of the read
\* is rethrown.
dualFind_file(p) ==
  /\ call[p].pc = "find_file"
  /\ \/ /\ faults < MaxFaults
        /\ faults' = faults + 1
        /\ hist' = [hist EXCEPT ![p].faultAt = @ \cup {"usersFile"}]
        /\ resp' = [resp EXCEPT ![p] = [status |-> 500, user |-> NoView, mode |-> "",
                                        message |-> InternalServerError]]
     \/ /\ UNCHANGED faults
        /\ hist' = [hist EXCEPT ![p].source = "file"]
        /\ IF \E i \in 1..Len(usersFile) : usersFile[i].email = toLowerCase(call[p].email)
           THEN LET i == CHOOSE i \in 1..Len(usersFile) :
                           usersFile[i].email = toLowerCase(call[p].email) IN
                resp' = [resp EXCEPT ![p] = [status |-> 200,
                                             user |-> userWithoutPassword(usersFile[i]),
                                             mode |-> getStorageStatus,
                                             message |-> NoMessage]]
           ELSE resp' = [resp EXCEPT ![p] = [status |-> 404, user |-> NoView, mode |-> "",
                                             message |-> UserNotFound]]
  /\ call' = [call EXCEPT ![p].pc = "done"]
  /\ UNCHANGED <<listing, serverVars, mongoUp, storeVars, migVars, nextId, ops>>

\* GET / -> dualStorage.getAllUsers(), up to its first await.
getAllUsers_start(p) ==
  /\ FreeSlot(p)
  /\ ops < MaxOps
  /\ ops' = ops + 1
  /\ call' = [call EXCEPT ![p] = [IdleCall EXCEPT !.pc = "list_mongo", !.kind = "list"]]
  /\ hist' = [hist EXCEPT ![p] =
       [NoHist EXCEPT !.file0 = usersFile, !.mongo0 = mongoDocs,
                      !.stats0 = statsFile, !.sawUp = mongoUp]]
  /\ UNCHANGED <<listing, serverVars, mongoUp, storeVars, resp, migVars, nextId, faults>>

\* The 200 answer of GET /: the users getAllUsers returned (getStats, which
\* follows, catches its own errors).
Listed ==
  [status |-> 200, user |-> NoView, mode |-> getStorageStatus, message |-> NoMessage]

\* users.map(({ password, ...user }) => user) / .select('-password')
withoutPasswords(users) == [i \in 1..Len(users) |-> userWithoutPassword(users[i])]

\* getAllUsers: `if (this.mongoConnected && User)` User.find({}); a non-empty
\* result is returned. An error of the query is rethrown by the catch block.
getAllUsers_mongo(p) ==
  /\ call[p].pc = "list_mongo"
  /\ IF mongoConnected /\ mongooseLoaded
     THEN IF ~mongoUp
          THEN /\ hist' = [hist EXCEPT ![p].mongoTries = @ + 1,
                                       ![p].mongoResult = MongoNetworkError[1]]
               /\ call' = [call EXCEPT ![p].pc = "done"]
               /\ resp' = [resp EXCEPT ![p] = [status |-> 500, user |-> NoView,
                                               mode |-> "", message |-> InternalServerError]]
          ELSE IF Cardinality(mongoDocs) > 0
          THEN /\ hist' = [hist EXCEPT ![p].mongoTries = @ + 1,
                                       ![p].mongoResult = "found", ![p].source = "mongo"]
               /\ call' = [call EXCEPT ![p].pc = "done",
                                       ![p].users = withoutPasswords(naturalOrder(mongoDocs))]
               /\ resp' = [resp EXCEPT ![p] = Listed]
          ELSE /\ hist' = [hist EXCEPT ![p].mongoTries = @ + 1,
                                       ![p].mongoResult = "empty"]
               /\ call' = [call EXCEPT ![p].pc = "list_file"]
               /\ UNCHANGED resp
     ELSE /\ hist' = [hist EXCEPT ![p].mongoResult = "skipped"]
          /\ call' = [call EXCEPT ![p].pc = "list_file"]
          /\ UNCHANGED resp
  /\ UNCHANGED <<listing, serverVars, mongoUp, storeVars, migVars, nextId, ops, faults>>

\* getAllUsers, the fallback: read users.json and return its records without
\* their passwords. An error of the read is rethrown.
getAllUsers_file(p) ==
  /\ call[p].pc = "list_file"
  /\ \/ /\ faults < MaxFaults
        /\ faults' = faults + 1
        /\ hist' = [hist EXCEPT ![p].faultAt = @ \cup {"usersFile"}]
        /\ call' = [call EXCEPT ![p].pc = "done"]
        /\ resp' = [resp EXCEPT ![p] = [status |-> 500, user |-> NoView, mode |-> "",
                                        message |-> InternalServerError]]
     \/ /\ UNCHANGED faults
        /\ hist' = [hist EXCEPT ![p].source = "file"]
        /\ call' = [call EXCEPT ![p].pc = "done",
                                ![p].users = withoutPasswords(usersFile)]
        /\ resp' = [resp EXCEPT ![p] = Listed]
  /\ UNCHANGED <<listing, serverVars, mongoUp, storeVars, migVars, nextId, ops>>

\* FileDatabase.readUsers: any error of readFile / JSON.parse is caught and an
\* empty array returned. The values a read can give: <<users, failed>>.
readUsers == {<<usersFile, FALSE>>} \cup {<<<<>>, TRUE>> : x \in {1}}

\* users.find(user => user.email.toLowerCase() === email.toLowerCase())
findUserByEmail(users, email) ==
  \E i \in 1..Len(users) : toLowerCase(users[i].email) = toLowerCase(email)

\* The stats object FileDatabase.updateStats computes: it has no
\* totalRegistrations property. activeUsers counts the records of status
\* 'active'; verifiedEmails, newsletterSubscribers and registrationsToday are
\* counted the same way from fields the records here do not carry.
activeCount(users) == Cardinality({i \in 1..Len(users) : users[i].status = "active"})
fdbStats(users) == [totalUsers |-> Num(Len(users)), totalRegistrations |-> Undefined,
                    activeUsers |-> Num(activeCount(users))]

\* The register route of userRoutesFile, up to the pre-check's read.
fileRegister_start(p, e) ==
  /\ FreeSlot(p)
  /\ ops < MaxOps
  /\ ops' = ops + 1
  /\ call' = [call EXCEPT ![p] =
       [IdleCall EXCEPT !.pc = "findUserByEmail", !.kind = "file", !.email = e,
                        !.terms = JsBoolean(TRUE)]]
  /\ hist' = [hist EXCEPT ![p] =
       [NoHist EXCEPT !.file0 = usersFile, !.mongo0 = mongoDocs,
                      !.stats0 = statsFile, !.sawUp = mongoUp]]
  /\ UNCHANGED <<listing, serverVars, mongoUp, storeVars, resp, migVars, nextId, faults>>

\* The route's pre-check: fileDb.findUserByEmail(value.email) -> 409.
fileRegister_check(p) ==
  /\ call[p].pc = "findUserByEmail"
  /\ \E r \in readUsers :
       /\ r[2] => faults < MaxFaults
       /\ faults' = IF r[2] THEN faults + 1 ELSE faults
       /\ hist' = [hist EXCEPT ![p].readOk = ~r[2],
                               ![p].faultAt = IF r[2] THEN @ \cup {"findUserByEmail"} ELSE @]
       /\ IF findUserByEmail(r[1], call[p].email)
          THEN /\ call' = [call EXCEPT ![p].pc = "done"]
               /\ resp' = [resp EXCEPT ![p] = [status |-> 409, user |-> NoView,
                                               mode |-> "", message |-> ConflictMessage]]
          ELSE /\ call' = [call EXCEPT ![p].pc = "fdb_readUsers"]
               /\ UNCHANGED resp
  /\ UNCHANGED <<listing, serverVars, mongoUp, storeVars, migVars, nextId, ops>>

\* FileDatabase.createUser: readUsers, the duplicate check, hashing, newUser and
\* users.push. The thrown conflict reaches the route's catch block, which maps
\* it as the dual route does.
fdb_readUsers(p) ==
  /\ call[p].pc = "fdb_readUsers"
  /\ \E r \in readUsers :
       /\ r[2] => faults < MaxFaults
       /\ faults' = IF r[2] THEN faults + 1 ELSE faults
       /\ hist' = [hist EXCEPT ![p].faultAt = IF r[2] THEN @ \cup {"fdb_readUsers"} ELSE @]
       /\ IF findUserByEmail(r[1], call[p].email)
          THEN /\ Throw(p, call[p], ConflictMessage)
               /\ UNCHANGED nextId
          ELSE LET u == buildNewUser([email |-> call[p].email,
                                      termsAccepted |-> call[p].terms],
                                     uuidv4(nextId)) IN
               /\ call' = [call EXCEPT ![p].pc = "fdb_saveUsers",
                                       ![p].newUser = u,
                                       ![p].users = Append(r[1], u)]
               /\ nextId' = nextId + 1
               /\ UNCHANGED resp
  /\ UNCHANGED <<listing, serverVars, mongoUp, storeVars, migVars, ops>>

\* FileDatabase.saveUsers: a failed write is caught and reported as `false`,
\* which createUser does not look at.
fdb_saveUsers(p) ==
  /\ call[p].pc = "fdb_saveUsers"
  /\ \/ /\ faults < MaxFaults
        /\ faults' = faults + 1
        /\ hist' = [hist EXCEPT ![p].faultAt = @ \cup {"fdb_saveUsers"}]
        /\ UNCHANGED usersFile
     \/ /\ usersFile' = writeFile(usersFile, call[p].users)
        /\ UNCHANGED <<hist, faults>>
  /\ call' = [call EXCEPT ![p].pc = "fdb_updateStats"]
  /\ UNCHANGED <<listing, serverVars, mongoUp, statsFile, mongoDocs, resp, migVars, nextId, ops>>

\* FileDatabase.updateStats: readUsers and the recomputed stats object.
fdb_updateStats(p) ==
  /\ call[p].pc = "fdb_updateStats"
  /\ \E r \in readUsers :
       /\ r[2] => faults < MaxFaults
       /\ faults' = IF r[2] THEN faults + 1 ELSE faults
       /\ hist' = [hist EXCEPT ![p].statsRuns = @ + 1,
                               ![p].faultAt = IF r[2] THEN @ \cup {"fdb_updateStats"} ELSE @]
       /\ call' = [call EXCEPT ![p].pc = "fdb_writeStats", ![p].stats = fdbStats(r[1])]
  /\ UNCHANGED <<listing, serverVars, mongoUp, storeVars, resp, migVars, nextId, ops>>

\* FileDatabase.updateStats: write stats.json (an error is caught); createUser
\* returns and the route answers 201.
fdb_writeStats(p) ==
  /\ call[p].pc = "fdb_writeStats"
  /\ \/ /\ faults < MaxFaults
        /\ faults' = faults + 1
        /\ hist' = [hist EXCEPT ![p].faultAt = @ \cup {"statsFile"}]
        /\ UNCHANGED statsFile
     \/ /\ statsFile' = call[p].stats
        /\ UNCHANGED <<hist, faults>>
  /\ call' = [call EXCEPT ![p].pc = "done"]
  /\ resp' = [resp EXCEPT ![p] = [status |-> 201,
                                  user |-> userWithoutPassword(call[p].newUser),
                                  mode |-> "", message |-> NoMessage]]
  /\ UNCHANGED <<listing, serverVars, mongoUp, usersFile, mongoDocs, migVars, nextId, ops>>

\* Array.prototype.sort((a, b) => new Date(b.createdAt) - new Date(a.createdAt)):
\* newest first, and stable, so records of the same time keep their order.
insertSorted(acc, x) ==
  LET k == Cardinality({i \in 1..Len(acc) : acc[i].createdAt >= x.createdAt})
  IN SubSeq(acc, 1, k) \o <<x>> \o SubSeq(acc, k + 1, Len(acc))

RECURSIVE sortNewestFirst(_)
sortNewestFirst(users) ==
  IF users = <<>> THEN <<>>
  ELSE insertSorted(sortNewestFirst(SubSeq(users, 1, Len(users) - 1)), users[Len(users)])

\* Array.prototype.slice(start, end), for 0 <= start <= end
slice(arr, start, end) ==
  SubSeq(arr, start + 1, IF end < Len(arr) THEN end ELSE Len(arr))

\* Math.ceil(a / b), for a >= 0 and b >= 1
ceil(a, b) == (a + b - 1) \div b

\* const startIndex = (page - 1) * limit
startIndexFromPage(page, limit) == page * limit
startIndex(page, limit) == (page - 1) * limit

\* FileDatabase.getAllUsers(page, limit, status) on the array readUsers gave:
\* the status filter (skipped for a falsy status), the passwords removed, the
\* sort, the slice and the counts.
getAllUsers(users, page, limit, status) ==
  LET filteredUsers == IF status # "" THEN SelectSeq(users, LAMBDA u : u.status = status)
                       ELSE users
      sorted == sortNewestFirst(withoutPasswords(filteredUsers))
      endIndex == startIndex(page, limit) + limit
  IN [users |-> slice(sorted, startIndex(page, limit), endIndex),
      total |-> Len(sorted), page |-> page, totalPages |-> ceil(Len(sorted), limit)]

\* GET / of the file server: page, limit and status of the query, then
\* fileDb.getAllUsers. A listing changes no store, so a behaviour has one.
fileGetAllUsers(page, limit, status) ==
  /\ listing = NoListing
  /\ \E r \in readUsers :
       /\ r[2] => faults < MaxFaults
       /\ faults' = IF r[2] THEN faults + 1 ELSE faults
       /\ LET result == getAllUsers(r[1], page, limit, status) IN
          listing' = [page |-> result.page, limit |-> limit, status |-> status,
                      read |-> r[1], users |-> result.users, total |-> result.total,
                      totalPages |-> result.totalPages]
  /\ UNCHANGED <<serverVars, mongoUp, storeVars, call, resp, hist, migVars, nextId, ops>>

\* The server process dies while createUser is past the write of users.json and
\* before the write of stats.json: the call is gone without a response (its
\* slot keeps what it was doing, for reference), and the process is started
\* again, with the constructor's `mongoConnected = false` and a new init().
crash(p) ==
  /\ call[p].kind = "dual"
  /\ call[p].pc \in {"saveToMongo", "updateStats", "updateStats_users", "updateStats_write"}
  /\ call' = [call EXCEPT ![p].pc = "crashed"]
  /\ initPc' = "restart"
  /\ mongoConnected' = FALSE
  /\ UNCHANGED <<listing, mongooseLoaded, mongoUp, storeVars, resp, hist, migVars, nextId,
                 ops, faults>>

\* ------------------------------------------- the MongoDB-only register route
\* User.findByEmail finds nothing, then new User(userData).save() with the
\* plaintext password succeeds. (Every other path of the route answers
\* 400/409/500 and leaves the collection as it is.)
mongoRegister(e) ==
  LET r == save(mongoDocs, [email |-> e, password |-> PlainPassword,
                            termsAccepted |-> TRUE, status |-> "active",
                            createdAt |-> nextId], ObjectId(nextId)) IN
  /\ ops < MaxOps
  /\ r.ok
  /\ ops' = ops + 1
  /\ nextId' = nextId + 1
  /\ mongoDocs' = r.docs
  /\ UNCHANGED <<listing, serverVars, mongoUp, usersFile, statsFile, call, resp, hist,
                 migVars, faults>>

\* GET /api/users/:id of the MongoDB routes: User.findById(req.params.id), 404
\* for null, 500 for an error of the query, else res.json({ success: true,
\* data: { user } }), which serialises the document.
mongoGetUserById(p, id) ==
  /\ FreeSlot(p)
  /\ ops < MaxOps
  /\ ops' = ops + 1
  /\ call' = [call EXCEPT ![p] = [IdleCall EXCEPT !.pc = "done", !.kind = "get"]]
  /\ hist' = [hist EXCEPT ![p] =
       [NoHist EXCEPT !.file0 = usersFile, !.mongo0 = mongoDocs,
                      !.stats0 = statsFile, !.sawUp = mongoUp]]
  /\ resp' = [resp EXCEPT ![p] =
       IF ~mongoUp
       THEN [status |-> 500, user |-> NoView, mode |-> "", message |-> InternalServerError]
       ELSE IF \E d \in mongoDocs : d._id = id
       THEN [status |-> 200, user |-> toJSON(CHOOSE d \in mongoDocs : d._id = id),
             mode |-> "", message |-> NoMessage]
       ELSE [status |-> 404, user |-> NoView, mode |-> "", message |-> UserNotFound]]
  /\ UNCHANGED <<listing, serverVars, mongoUp, storeVars, migVars, nextId, faults>>

\* The response has been sent; the slot is free again.
finish(p) ==
  /\ call[p].pc = "done"
  /\ call' = [call EXCEPT ![p] = IdleCall]
  /\ resp' = [resp EXCEPT ![p] = NoResp]
  /\ hist' = [hist EXCEPT ![p] = NoHist]
  /\ UNCHANGED <<listing, serverVars, mongoUp, storeVars, migVars, nextId, ops, faults>>

\* ------------------------------------------------ DataMigration (migrate.js)
\* mongoUsers.map(user => ({ _id: user._id.toString(), ... })): the file format
\* of each document, in the order find() gave them. The fileUsers read just
\* before are not used.
convertedUsersMerged(mongoUsers, fileUsers) ==
  fileUsers \o SelectSeq(mongoUsers, LAMBDA d : ~findUserByEmail(fileUsers, d.email))
convertedUsers(mongoUsers, fileUsers) ==
  [i \in 1..Len(mongoUsers) |->
     [_id |-> mongoUsers[i]._id, email |-> mongoUsers[i].email,
      password |-> mongoUsers[i].password,
      termsAccepted |-> mongoUsers[i].termsAccepted,
      status |-> mongoUsers[i].status, createdAt |-> mongoUsers[i].createdAt]]

\* main(): `to-mongo` runs migrateUsers, `to-file` runs syncFromMongoToFile.
migration_start(mode) ==
  /\ mig.pc = "idle"
  /\ ops < MaxOps
  /\ ops' = ops + 1
  /\ mig' = [IdleMig EXCEPT !.pc = "connect", !.mode = mode, !.file0 = usersFile,
                            !.mongo0 = mongoDocs, !.succ = prevRun.valid]
  /\ UNCHANGED <<listing, serverVars, mongoUp, storeVars, call, resp, hist, prevRun, nextId,
                 faults>>

\* `if (!connected) { ...; return; }` at the start of both runs: where the run
\* goes after connect().
afterConnectUnchecked(mode, connected) ==
  IF mode = "to-mongo" THEN "readUsersFromFile" ELSE "find"
afterConnect(mode, connected) ==
  IF ~connected THEN "returned"
  ELSE IF mode = "to-mongo" THEN "readUsersFromFile" ELSE "find"

\* connect(): true when mongoose.connect resolves, false when it rejects; a run
\* that did not connect returns at once.
connect ==
  /\ mig.pc = "connect"
  /\ mig' = [mig EXCEPT !.conn = IF mongoUp THEN "open" ELSE "closed",
                        !.connected = IF mongoUp THEN "yes" ELSE "no",
                        !.pc = afterConnect(mig.mode, mongoUp),
                        !.outcome = IF afterConnect(mig.mode, mongoUp) = "returned"
                                    THEN "aborted" ELSE @]
  /\ UNCHANGED <<listing, serverVars, mongoUp, storeVars, call, resp, hist, prevRun, nextId,
                 ops, faults>>

\* migrateUsers: readUsersFromFile (an error gives []); with no users the run
\* returns before the loop.
migrate_readUsersFromFile ==
  /\ mig.pc = "readUsersFromFile"
  /\ \E r \in readUsers :
       /\ r[2] => faults < MaxFaults
       /\ faults' = IF r[2] THEN faults + 1 ELSE faults
       /\ IF Len(r[1]) = 0
          THEN mig' = [mig EXCEPT !.pc = "returned", !.outcome = "empty",
                                  !.clean = ~r[2]]
          ELSE mig' = [mig EXCEPT !.pc = "findOne", !.fileUsers = r[1], !.i = 1]
  /\ UNCHANGED <<listing, serverVars, mongoUp, storeVars, call, resp, hist, prevRun, nextId, ops>>

\* The loop goes to the next record, or to the summary after the last one.
nextRecordStopping(m) ==
  IF m.i < Len(m.fileUsers) /\ m.errored = {} THEN [m EXCEPT !.i = @ + 1, !.pc = "findOne"]
  ELSE [m EXCEPT !.pc = "close", !.outcome = "summarized"]
nextRecord(m) ==
  IF m.i < Len(m.fileUsers) THEN [m EXCEPT !.i = @ + 1, !.pc = "findOne"]
  ELSE [m EXCEPT !.pc = "close", !.outcome = "summarized"]

\* migrateUsers, per record: User.findOne({ email }) -> skip when it exists.
\* A query that fails is caught with the record counted as an error.
migrate_findOne ==
  /\ mig.pc = "findOne"
  /\ LET email == mig.fileUsers[mig.i].email IN
     IF ~mongoUp
     THEN mig' = nextRecord([mig EXCEPT !.errored = @ \cup {email}, !.clean = FALSE])
     ELSE IF findOne(mongoDocs, email)
     THEN mig' = nextRecord([mig EXCEPT !.skipped = @ \cup {email}])
     ELSE mig' = [mig EXCEPT !.pc = "save"]
  /\ UNCHANGED <<listing, serverVars, mongoUp, storeVars, call, resp, hist, prevRun, nextId,
                 ops, faults>>

\* migrateUsers, per record: new User({... password: fileUser.password ...})
\* .save(); an error is caught and counted.
migrate_save ==
  /\ mig.pc = "save"
  /\ LET fileUser == mig.fileUsers[mig.i]
         r == save(mongoDocs, [email |-> fileUser.email, password |-> fileUser.password,
                               termsAccepted |-> fileUser.termsAccepted,
                               status |-> fileUser.status,
                               createdAt |-> fileUser.createdAt],
                   ObjectId(nextId))
     IN /\ mongoDocs' = r.docs
        /\ nextId' = nextId + 1
        /\ mig' = IF r.ok
                  THEN nextRecord([mig EXCEPT !.migrated = @ \cup {fileUser.email}])
                  ELSE nextRecord([mig EXCEPT !.errored = @ \cup {fileUser.email},
                                              !.clean = @ /\ r.error # MongoNetworkError])
  /\ UNCHANGED <<listing, serverVars, mongoUp, usersFile, statsFile, call, resp, hist, prevRun,
                 ops, faults>>

\* syncFromMongoToFile: User.find({}); an error goes to the catch block.
sync_find ==
  /\ mig.pc = "find"
  /\ IF mongoUp
     THEN mig' = [mig EXCEPT !.pc = "sync_readUsersFromFile",
                             !.mongoUsers = naturalOrder(mongoDocs)]
     ELSE mig' = [mig EXCEPT !.pc = "close", !.outcome = "error"]
  /\ UNCHANGED <<listing, serverVars, mongoUp, storeVars, call, resp, hist, prevRun, nextId,
                 ops, faults>>

\* syncFromMongoToFile: readUsersFromFile.
sync_readUsersFromFile ==
  /\ mig.pc = "sync_readUsersFromFile"
  /\ \E r \in readUsers :
       /\ r[2] => faults < MaxFaults
       /\ faults' = IF r[2] THEN faults + 1 ELSE faults
       /\ mig' = [mig EXCEPT !.pc = "sync_writeFile", !.fileUsers = r[1]]
  /\ UNCHANGED <<listing, serverVars, mongoUp, storeVars, call, resp, hist, prevRun, nextId, ops>>

\* syncFromMongoToFile: writeFile(usersFile, convertedUsers); an error goes to
\* the catch block.
sync_writeFile ==
  /\ mig.pc = "sync_writeFile"
  /\ \/ /\ faults < MaxFaults
        /\ faults' = faults + 1
        /\ mig' = [mig EXCEPT !.pc = "close", !.outcome = "error"]
        /\ UNCHANGED usersFile
     \/ /\ usersFile' = convertedUsers(mig.mongoUsers, mig.fileUsers)
        /\ mig' = [mig EXCEPT !.pc = "close", !.outcome = "synced"]
        /\ UNCHANGED faults
  /\ UNCHANGED <<listing, serverVars, mongoUp, statsFile, mongoDocs, call, resp, hist, prevRun,
                 nextId, ops>>

\* mongoose.connection.close() at the end of either run.
migration_close ==
  /\ mig.pc = "close"
  /\ mig' = [mig EXCEPT !.pc = "returned", !.conn = "closed"]
  /\ UNCHANGED <<listing, serverVars, mongoUp, storeVars, call, resp, hist, prevRun, nextId,
                 ops, faults>>

\* process.exit(0). The summary of a to-mongo run is remembered for the next run.
migration_exit ==
  /\ mig.pc = "returned"
  /\ mig' = IdleMig
  /\ prevRun' = IF mig.mode = "to-mongo"
                THEN [valid |-> mig.outcome = "summarized" /\ mig.clean,
                      migrated |-> mig.migrated, file |-> usersFile,
                      mongoAfter |-> mongoDocs]
                ELSE NoRun
  /\ UNCHANGED <<listing, serverVars, mongoUp, storeVars, call, resp, hist, nextId, ops, faults>>

\* ------------------------------------------------------------ environment
\* The MongoDB server becomes unreachable / reachable again. Calls in flight
\* remember having seen it reachable.
mongoGoesDown ==
  /\ mongoUp
  /\ mongoUp' = FALSE
  /\ UNCHANGED <<listing, serverVars, storeVars, call, resp, hist, migVars, nextId, ops, faults>>

mongoComesUp ==
  /\ ~mongoUp
  /\ mongoUp' = TRUE
  /\ hist' = [p \in Procs |-> IF call[p].pc \in {"idle", "done"} THEN hist[p]
                              ELSE [hist[p] EXCEPT !.sawUp = TRUE]]
  /\ UNCHANGED <<listing, serverVars, storeVars, call, resp, migVars, nextId, ops, faults>>

\* ---------------------------------------------------------- specification
\* After construction: `mongoConnected = false`, nothing initialised yet.
Init ==
  /\ initPc = "file"
  /\ mongooseLoaded \in BOOLEAN
  /\ mongoConnected = FALSE
  /\ mongoUp \in BOOLEAN
  /\ usersFile = <<>>
  /\ statsFile = initialStats
  /\ mongoDocs = {}
  /\ call = [p \in Procs |-> IdleCall]
  /\ resp = [p \in Procs |-> NoResp]
  /\ hist = [p \in Procs |-> NoHist]
  /\ mig = IdleMig
  /\ prevRun = NoRun
  /\ nextId = 1
  /\ ops = 0
  /\ faults = 0
  /\ listing = NoListing

\* One operation at a time: a request starts only when nothing is in flight.
dualRegister == Quiet /\ \E p \in Procs, e \in InputEmails : createUser_start(p, e)
fileRegister == Quiet /\ \E p \in Procs, e \in InputEmails : fileRegister_start(p, e)
mongoRouteRegister == Quiet /\ \E e \in InputEmails : mongoRegister(e)

Next ==
  \/ initFileStorage
  \/ initMongoStorage
  \/ dualRegister
  \/ \E p \in Procs : saveToFile_read(p)
  \/ \E p \in Procs : saveToFile_write(p)
  \/ \E p \in Procs : saveToMongo(p)
  \/ \E p \in Procs : updateStats_read(p)
  \/ \E p \in Procs : updateStats_users(p)
  \/ \E p \in Procs : updateStats_write(p)
  \/ fileRegister
  \/ \E p \in Procs : fileRegister_check(p)
  \/ \E p \in Procs : fdb_readUsers(p)
  \/ \E p \in Procs : fdb_saveUsers(p)
  \/ \E p \in Procs : fdb_updateStats(p)
  \/ \E p \in Procs : fdb_writeStats(p)
  \/ mongoRouteRegister
  \/ \E p \in Procs : finish(p)
  \/ mongoGoesDown
  \/ mongoComesUp

Spec == Init /\ [][Next]_vars

\* The dual server with its read routes.
findRoute == Quiet /\ \E p \in Procs, e \in InputEmails : dualFind_start(p, e)
listRoute == Quiet /\ \E p \in Procs : getAllUsers_start(p)

NextRead ==
  \/ initFileStorage
  \/ initMongoStorage
  \/ dualRegister
  \/ \E p \in Procs : saveToFile_read(p)
  \/ \E p \in Procs : saveToFile_write(p)
  \/ \E p \in Procs : saveToMongo(p)
  \/ \E p \in Procs : updateStats_read(p)
  \/ \E p \in Procs : updateStats_users(p)
  \/ \E p \in Procs : updateStats_write(p)
  \/ findRoute
  \/ \E p \in Procs : dualFind_mongo(p)
  \/ \E p \in Procs : dualFind_file(p)
  \/ listRoute
  \/ \E p \in Procs : getAllUsers_mongo(p)
  \/ \E p \in Procs : getAllUsers_file(p)
  \/ \E p \in Procs : finish(p)
  \/ mongoGoesDown
  \/ mongoComesUp

SpecRead == Init /\ [][NextRead]_vars

\* The dual server taking registration requests with any terms_accepted value.
RegEmails == {"a@x.com", "A@X.COM", "c@x.info"}

registerRoute ==
  Quiet /\ \E p \in Procs, e \in RegEmails, t \in TermsValues, a \in AddressValues :
             register_start(p, [email |-> e, terms_accepted |-> t, address |-> a])

NextReg ==
  \/ initFileStorage
  \/ initMongoStorage
  \/ registerRoute
  \/ \E p \in Procs : saveToFile_read(p)
  \/ \E p \in Procs : saveToFile_write(p)
  \/ \E p \in Procs : saveToMongo(p)
  \/ \E p \in Procs : updateStats_read(p)
  \/ \E p \in Procs : updateStats_users(p)
  \/ \E p \in Procs : updateStats_write(p)
  \/ \E p \in Procs : finish(p)
  \/ mongoGoesDown
  \/ mongoComesUp

SpecReg == Init /\ [][NextReg]_vars

\* The file server answering GET / on a users file that the servers and the
\* to-file migration have written: up to MaxUsers records of any status the
\* schema knows, with creation times in any order and possibly equal.
PageEmails == <<"a@x.com", "b@x.com", "c@x.info", "d@x.com">>
PageStatuses == {"active", "inactive"}
PageTimes == 1..2

InitPage ==
  /\ initPc = "done"
  /\ mongooseLoaded \in BOOLEAN
  /\ mongoConnected = FALSE
  /\ mongoUp = FALSE
  /\ \E n \in 0..MaxUsers :
       \E st \in [1..n -> PageStatuses], tm \in [1..n -> PageTimes] :
         usersFile = [i \in 1..n |->
                        [_id |-> uuidv4(i), email |-> PageEmails[i],
                         password |-> bcryptHash(PlainPassword), termsAccepted |-> TRUE,
                         status |-> st[i], createdAt |-> tm[i]]]
  /\ statsFile = fdbStats(usersFile)
  /\ mongoDocs = {}
  /\ call = [p \in Procs |-> IdleCall]
  /\ resp = [p \in Procs |-> NoResp]
  /\ hist = [p \in Procs |-> NoHist]
  /\ mig = IdleMig
  /\ prevRun = NoRun
  /\ nextId = MaxUsers + 1
  /\ ops = 0
  /\ faults = 0
  /\ listing = NoListing

pageRoute ==
  \E page \in 1..(MaxUsers + 1), limit \in 1..(MaxUsers + 1),
     status \in PageStatuses \cup {""} : fileGetAllUsers(page, limit, status)

NextPage == pageRoute

SpecPage == InitPage /\ [][NextPage]_vars

\* The migration tool is a program of its own: it starts on whatever the two
\* stores hold. The users file holds records the servers wrote (distinct
\* lowercase e-mails, passwords hashed once); the collection holds documents
\* written by the MongoDB route (hashed once) or by saveToMongo (hashed by
\* createUser and again by the pre-save hook), all with e-mails the schema
\* accepts.
fileRecord(e) ==
  [_id |-> uuidv4(CHOOSE k \in 1..3 : <<"a@x.com", "b@x.com", "c@x.info">>[k] = e),
   email |-> e, password |-> bcryptHash(PlainPassword), termsAccepted |-> TRUE,
   status |-> "active",
   createdAt |-> CHOOSE k \in 1..3 : <<"a@x.com", "b@x.com", "c@x.info">>[k] = e]
mongoDoc(e, rounds) ==
  [_id |-> ObjectId(3 + (CHOOSE k \in 1..3 : <<"a@x.com", "b@x.com", "c@x.info">>[k] = e)),
   email |-> e, password |-> [plain |-> PlainPassword.plain, rounds |-> rounds],
   termsAccepted |-> TRUE, status |-> "active",
   createdAt |-> 3 + (CHOOSE k \in 1..3 : <<"a@x.com", "b@x.com", "c@x.info">>[k] = e)]

InitMig ==
  /\ initPc = "done"
  /\ mongooseLoaded = TRUE
  /\ mongoConnected \in BOOLEAN
  /\ mongoUp \in BOOLEAN
  /\ \E es \in SUBSET Emails :
       usersFile = SelectSeq(<<fileRecord("a@x.com"), fileRecord("c@x.info"),
                               fileRecord("b@x.com")>>, LAMBDA u : u.email \in es)
  /\ statsFile = [totalUsers |-> Num(Len(usersFile)),
                  totalRegistrations |-> Num(Len(usersFile)), activeUsers |-> Undefined]
  /\ \E es \in SUBSET {e \in Emails : emailMatch(e)} :
       \E rounds \in [es -> 1..2] :
         mongoDocs = {mongoDoc(e, rounds[e]) : e \in es}
  /\ call = [p \in Procs |-> IdleCall]
  /\ resp = [p \in Procs |-> NoResp]
  /\ hist = [p \in Procs |-> NoHist]
  /\ mig = IdleMig
  /\ prevRun = NoRun
  /\ nextId = 7
  /\ ops = 0
  /\ faults = 0
  /\ listing = NoListing

NextMig ==
  \/ \E mode \in {"to-mongo", "to-file"} : migration_start(mode)
  \/ connect
  \/ migrate_readUsersFromFile
  \/ migrate_findOne
  \/ migrate_save
  \/ sync_find
  \/ sync_readUsersFromFile
  \/ sync_writeFile
  \/ migration_close
  \/ migration_exit
  \/ mongoGoesDown
  \/ mongoComesUp

SpecMig == InitMig /\ [][NextMig]_vars

\* The servers and the to-file migration running at the same time, on stores
\* that already hold records: requests start while others are in flight, and
\* every await is a point where another operation may run. These runs start
\* MaxOps - 1 operations and meet no file-system failure.
InitConc ==
  /\ initPc = "done"
  /\ mongooseLoaded = TRUE
  /\ mongoConnected \in BOOLEAN
  /\ mongoUp = TRUE
  /\ usersFile = <<fileRecord("b@x.com")>>
  /\ statsFile = [totalUsers |-> Num(Len(usersFile)),
                  totalRegistrations |-> Num(Len(usersFile)), activeUsers |-> Undefined]
  /\ \E es \in SUBSET {"b@x.com"} : mongoDocs = {mongoDoc(e, 2) : e \in es}
  /\ call = [p \in Procs |-> IdleCall]
  /\ resp = [p \in Procs |-> NoResp]
  /\ hist = [p \in Procs |-> NoHist]
  /\ mig = IdleMig
  /\ prevRun = NoRun
  /\ nextId = 7
  /\ ops = 1
  /\ faults = MaxFaults
  /\ listing = NoListing

ConcEmails == {"a@x.com", "A@X.COM"}

concurrentDualRegister == \E p \in Procs, e \in ConcEmails : createUser_start(p, e)
concurrentFileRegister == \E p \in Procs, e \in ConcEmails : fileRegister_start(p, e)
concurrentSync == migration_start("to-file")

NextConc ==
  \/ concurrentDualRegister
  \/ \E p \in Procs : saveToFile_read(p)
  \/ \E p \in Procs : saveToFile_write(p)
  \/ \E p \in Procs : saveToMongo(p)
  \/ \E p \in Procs : updateStats_read(p)
  \/ \E p \in Procs : updateStats_users(p)
  \/ \E p \in Procs : updateStats_write(p)
  \/ concurrentFileRegister
  \/ \E p \in Procs : fileRegister_check(p)
  \/ \E p \in Procs : fdb_readUsers(p)
  \/ \E p \in Procs : fdb_saveUsers(p)
  \/ \E p \in Procs : fdb_updateStats(p)
  \/ \E p \in Procs : fdb_writeStats(p)
  \/ \E p \in Procs : finish(p)
  \/ concurrentSync
  \/ connect
  \/ sync_find
  \/ sync_readUsersFromFile
  \/ sync_writeFile
  \/ migration_close
  \/ migration_exit

SpecConc == InitConc /\ [][NextConc]_vars

\* Registrations of the dual and the file server racing on the same users file,
\* for two e-mails the file does not hold. As many requests as there are slots
\* (every call stays in its slot once answered), and no file-system failure.
RaceEmails == {"a@x.com", "c@x.info"}

InitRace ==
  /\ initPc = "done"
  /\ mongooseLoaded = TRUE
  /\ mongoConnected \in BOOLEAN
  /\ mongoUp = TRUE
  /\ usersFile = <<fileRecord("b@x.com")>>
  /\ statsFile = [totalUsers |-> Num(Len(usersFile)),
                  totalRegistrations |-> Num(Len(usersFile)), activeUsers |-> Undefined]
  /\ mongoDocs = {}
  /\ call = [p \in Procs |-> IdleCall]
  /\ resp = [p \in Procs |-> NoResp]
  /\ hist = [p \in Procs |-> NoHist]
  /\ mig = IdleMig
  /\ prevRun = NoRun
  /\ nextId = 7
  /\ ops = MaxOps - NumProcs
  /\ faults = MaxFaults
  /\ listing = NoListing

raceDualRegister == \E p \in Procs, e \in RaceEmails : createUser_start(p, e)
raceFileRegister == \E p \in Procs, e \in RaceEmails : fileRegister_start(p, e)

NextRace ==
  \/ raceDualRegister
  \/ \E p \in Procs : saveToFile_read(p)
  \/ \E p \in Procs : saveToFile_write(p)
  \/ \E p \in Procs : saveToMongo(p)
  \/ \E p \in Procs : updateStats_read(p)
  \/ \E p \in Procs : updateStats_users(p)
  \/ \E p \in Procs : updateStats_write(p)
  \/ raceFileRegister
  \/ \E p \in Procs : fileRegister_check(p)
  \/ \E p \in Procs : fdb_readUsers(p)
  \/ \E p \in Procs : fdb_saveUsers(p)
  \/ \E p \in Procs : fdb_updateStats(p)
  \/ \E p \in Procs : fdb_writeStats(p)

SpecRace == InitRace /\ [][NextRace]_vars

\* The dual server with a process crash between the two file writes of
\* createUser, and its restart.
registerAfterRestart ==
  /\ initPc = "done"
  /\ \A p \in Procs : call[p].pc \in {"idle", "crashed"}
  /\ \E p \in Procs, e \in InputEmails : createUser_start(p, e)

NextCrash ==
  \/ initFileStorage
  \/ initMongoStorage
  \/ registerAfterRestart
  \/ \E p \in Procs : saveToFile_read(p)
  \/ \E p \in Procs : saveToFile_write(p)
  \/ \E p \in Procs : saveToMongo(p)
  \/ \E p \in Procs : updateStats_read(p)
  \/ \E p \in Procs : updateStats_users(p)
  \/ \E p \in Procs : updateStats_write(p)
  \/ \E p \in Procs : crash(p)
  \/ \E p \in Procs : finish(p)

SpecCrash == Init /\ [][NextCrash]_vars

\* The dual server from the start of the process: app.listen is called without
\* waiting for dualStorage.init(), so a request can be handled at any point of
\* the initialisation.
registerWhileStarting ==
  /\ \A p \in Procs : call[p].pc = "idle"
  /\ \E p \in Procs, e \in InputEmails : createUser_start(p, e)

NextStart ==
  \/ initFileStorage
  \/ initMongoStorage
  \/ registerWhileStarting
  \/ \E p \in Procs : saveToFile_read(p)
  \/ \E p \in Procs : saveToFile_write(p)
  \/ \E p \in Procs : saveToMongo(p)
  \/ \E p \in Procs : updateStats_read(p)
  \/ \E p \in Procs : updateStats_users(p)
  \/ \E p \in Procs : updateStats_write(p)
  \/ \E p \in Procs : finish(p)

SpecStart == Init /\ [][NextStart]_vars

\* The MongoDB server: registrations and GET /:id, for the identifiers of the
\* collection and one it does not hold. The server starts on a collection of
\* documents earlier registrations left (passwords hashed once) and uses no
\* data files.
InitMongo ==
  /\ initPc = "done"
  /\ mongooseLoaded = TRUE
  /\ mongoConnected = TRUE
  /\ mongoUp \in BOOLEAN
  /\ usersFile = <<>>
  /\ statsFile = initialStats
  /\ \E es \in SUBSET {"a@x.com", "b@x.com"} : mongoDocs = {mongoDoc(e, 1) : e \in es}
  /\ call = [p \in Procs |-> IdleCall]
  /\ resp = [p \in Procs |-> NoResp]
  /\ hist = [p \in Procs |-> NoHist]
  /\ mig = IdleMig
  /\ prevRun = NoRun
  /\ nextId = 7
  /\ ops = 0
  /\ faults = 0
  /\ listing = NoListing

mongoRouteGetUser ==
  Quiet /\ \E p \in Procs, id \in {d._id : d \in mongoDocs} \cup {NoId} :
             mongoGetUserById(p, id)

NextMongo ==
  \/ mongoRouteRegister
  \/ mongoRouteGetUser
  \/ \E p \in Procs : finish(p)
  \/ mongoGoesDown
  \/ mongoComesUp

SpecMongo == InitMongo /\ [][NextMongo]_vars

\* ------------------------------------------------------------------ claims
Done(p) == call[p].pc = "done"
Dual(p) == call[p].kind = "dual"
\* The e-mail of the call is in the users file as it was when the call began.
Present(p) == findUserByEmail(hist[p].file0, call[p].email)
AlreadyExists == <<"already", "exists">>

\* C1: a DualStorage.createUser call with an e-mail not yet in the users file
\* (and no file error in saveToFile) returns; what it returns has the lowercased
\* input e-mail and no password field, and the record appended to the users
\* file has that lowercased e-mail.
C1_CreateUserReturnsLowercasedRecord ==
  \A p \in Procs : (Done(p) /\ Dual(p)) =>
    /\ (~Present(p) /\ "saveToFile" \notin hist[p].faultAt) => resp[p].status = 201
    /\ resp[p].status = 201 =>
         /\ resp[p].user.email = toLowerCase(call[p].email)
         /\ "password" \notin DOMAIN resp[p].user
         /\ Len(usersFile) = Len(hist[p].file0) + 1
         /\ usersFile[Len(usersFile)].email = toLowerCase(call[p].email)

C1_Witness ==
  \E p \in Procs : Done(p) /\ Dual(p) /\ call[p].email = "A@X.COM"
                   /\ resp[p].status = 201 /\ resp[p].user.email = "a@x.com"

\* C2: a createUser call that read the users file and whose e-mail is, compared
\* case-insensitively, already in it ends in the 'already exists' error, answered
\* with 409, in every state of the Secondary Store.
C2_DuplicateEmailIsConflict ==
  \A p \in Procs : (Done(p) /\ hist[p].readOk /\ Present(p)) =>
    /\ resp[p].status = 409
    /\ includes(resp[p].message, AlreadyExists)

C2_Witness ==
  \E p \in Procs : /\ Done(p) /\ Dual(p) /\ call[p].email = "A@X.COM"
                   /\ resp[p].status = 409
                   /\ mongoConnected /\ ~mongoUp
                   /\ "a@x.com" \notin docEmails(mongoDocs)

\* C3: a createUser call that ends in Conflict leaves the users file, the
\* Secondary Store and the persisted stats as they were when it began.
C3_ConflictChangesNothing ==
  \A p \in Procs : (Done(p) /\ resp[p].status = 409) =>
    /\ usersFile = hist[p].file0
    /\ mongoDocs = hist[p].mongo0
    /\ statsFile = hist[p].stats0

C3_Witness ==
  \E p \in Procs : /\ Done(p) /\ Dual(p) /\ resp[p].status = 409
                   /\ mongoConnected /\ mongoUp
                   /\ call[p].newUser.email \notin docEmails(mongoDocs)
                   /\ emailMatch(call[p].email)

\* C4: a DualStorage.createUser call with a fresh e-mail, made while MongoDB is
\* unreachable from its start to its response (and meeting no file error),
\* succeeds and answers with storage mode 'file-only'.
C4_UnreachableSecondaryReportsFileOnly ==
  \A p \in Procs :
    (/\ Done(p) /\ Dual(p) /\ ~hist[p].sawUp /\ ~mongoUp
     /\ ~Present(p) /\ hist[p].faultAt = {}) =>
      /\ resp[p].status = 201
      /\ resp[p].mode = "file-only"

\* C5: a createUser call whose Secondary Store write failed (validation error,
\* connection loss, duplicate key) still returns the created record, the record
\* is in the users file, updateStats ran, and the write was tried once.
MongoWriteFailed(p) ==
  hist[p].mongoTries > 0 /\ hist[p].mongoResult # "saved"

C5_SecondaryFailureIsAbsorbed ==
  \A p \in Procs : (Done(p) /\ Dual(p) /\ MongoWriteFailed(p)) =>
    /\ resp[p].status = 201
    /\ resp[p].user = userWithoutPassword(call[p].newUser)
    /\ \E i \in 1..Len(usersFile) : usersFile[i] = call[p].newUser
    /\ hist[p].statsRuns = 1
    /\ hist[p].mongoTries = 1

C5_Witness ==
  \E p \in Procs : /\ Done(p) /\ Dual(p) /\ hist[p].mongoResult = E11000[1]
                   /\ resp[p].status = 201

NoCallRunning == initPc = "done" /\ \A p \in Procs : call[p].pc \in {"idle", "done"}

C7_TotalUsersIsRecordCount ==
  (NoCallRunning /\ faults = 0) => statsFile.totalUsers = Num(Len(usersFile))

C7_Witness ==
  NoCallRunning /\ faults = 0 /\ Len(usersFile) = 3 /\ statsFile.totalUsers = Num(3)

\* C8: a to-mongo run that directly follows a completed to-mongo run (both ran
\* their loop without a store error) migrates nothing, skips every record the
\* first run migrated and leaves the collection as it was.
SecondRunFinished ==
  /\ mig.pc = "returned" /\ mig.mode = "to-mongo" /\ mig.succ
  /\ mig.outcome = "summarized" /\ mig.clean

C8_SecondMigrationRunIsIdempotent ==
  SecondRunFinished =>
    /\ mig.migrated = {}
    /\ prevRun.migrated \subseteq mig.skipped
    /\ mongoDocs = mig.mongo0

C8_Witness ==
  SecondRunFinished /\ Cardinality(prevRun.migrated) = 2 /\ mig.errored # {}

\* C9: after a to-file run that wrote the users file, the users file holds one
\* record for each document of the collection and nothing else.
SyncSucceeded == mig.pc = "returned" /\ mig.mode = "to-file" /\ mig.outcome = "synced"

C9_SyncOverwritesFileWithCollection ==
  SyncSucceeded =>
    /\ fileEmails(usersFile) = docEmails(mongoDocs)
    /\ Len(usersFile) = Cardinality(mongoDocs)

C9_Witness ==
  /\ SyncSucceeded
  /\ docEmails(mongoDocs) = {"a@x.com", "b@x.com"}
  /\ fileEmails(mig.file0) = {"a@x.com", "c@x.info"}
  /\ fileEmails(usersFile) = {"a@x.com", "b@x.com"}

\* C10: when createUser wrote to both stores, the password in the users file is
\* the plaintext hashed once and the password in the Secondary Store is that
\* very hash.
C10_BothStoresHoldTheSameHash ==
  \A p \in Procs :
    (Done(p) /\ Dual(p) /\ hist[p].mongoResult = "saved" /\ hist[p].faultAt = {}) =>
      \A i \in 1..Len(usersFile) : usersFile[i].email = call[p].newUser.email =>
        /\ usersFile[i].password = bcryptHash(PlainPassword)
        /\ \A d \in mongoDocs : d.email = usersFile[i].email =>
              d.password = usersFile[i].password

\* The terms_accepted values that refuse the terms.
TermsRefused == {JsBoolean(FALSE), JsString("false"), JsString("0"), JsNumber("0")}

\* C11: every record of the users file has termsAccepted = true, and a
\* registration request whose terms_accepted is false, 'false', '0' or 0 is
\* answered 400 and leaves the users file and the Secondary Store as they were.
C11_TermsAreAcceptedBeforeARecordIsCreated ==
  /\ \A i \in 1..Len(usersFile) : usersFile[i].termsAccepted = TRUE
  /\ \A p \in Procs : (Done(p) /\ Dual(p) /\ call[p].terms \in TermsRefused) =>
        /\ resp[p].status = 400
        /\ usersFile = hist[p].file0
        /\ mongoDocs = hist[p].mongo0

\* C12: no two records of the users file have the same e-mail, compared
\* case-insensitively, whatever the interleaving of concurrent registrations
\* and to-file migration runs.
C12_UsersFileEmailsAreUnique ==
  \A i, j \in 1..Len(usersFile) :
    toLowerCase(usersFile[i].email) = toLowerCase(usersFile[j].email) => i = j

C12_Witness ==
  \E p, q \in Procs :
    /\ p # q /\ Done(p) /\ Done(q)
    /\ resp[p].status = 201 /\ resp[q].status = 201
    /\ call[p].newUser.email = call[q].newUser.email
    /\ call[p].newUser.email \in fileEmails(usersFile)

\* C13: a read that starts when the users file holds records created by
\* createUser, and that meets no file error and no failing MongoDB query,
\* shows them: findUserByEmail answers with the record of the e-mail asked for,
\* getAllUsers with a list that holds every e-mail of the users file.
FindDone(p) == Done(p) /\ call[p].kind = "find"
ListDone(p) == Done(p) /\ call[p].kind = "list"
MongoQueryFailed(p) == hist[p].mongoResult = MongoNetworkError[1]
ReadUndisturbed(p) == hist[p].faultAt = {} /\ ~MongoQueryFailed(p)

C13_CreatedRecordIsVisibleThroughTheReadPath ==
  \A p \in Procs :
    /\ (FindDone(p) /\ ReadUndisturbed(p) /\ Present(p)) =>
          (resp[p].status = 200 /\ resp[p].user.email = toLowerCase(call[p].email))
    /\ (ListDone(p) /\ ReadUndisturbed(p)) =>
          /\ resp[p].status = 200
          /\ fileEmails(hist[p].file0) \subseteq fileEmails(call[p].users)

\* C14: a read whose MongoDB query failed does not fail: it is answered from
\* the users file.
C14_SecondaryReadErrorIsNotPropagated ==
  \A p \in Procs :
    ((FindDone(p) \/ ListDone(p)) /\ MongoQueryFailed(p) /\ hist[p].faultAt = {}) =>
      (resp[p].status # 500 /\ hist[p].source = "file")

\* C15: a listing of the file server holds, of the records read that match the
\* status filter, sorted newest first, those at positions [(page-1)*limit,
\* page*limit); total counts the matching records, totalPages is
\* ceil(total/limit), and the pages 1..totalPages put one after the other hold
\* every matching record once.
Matching(l) ==
  {userWithoutPassword(l.read[i]) :
     i \in {j \in 1..Len(l.read) : l.status = "" \/ l.read[j].status = l.status}}

RECURSIVE PagesUpTo(_, _)
PagesUpTo(l, n) ==
  IF n = 0 THEN <<>>
  ELSE PagesUpTo(l, n - 1) \o getAllUsers(l.read, n, l.limit, l.status).users

C15_ListingIsTheSortedPageSlice ==
  listing.page > 0 =>
    LET all == PagesUpTo(listing, listing.totalPages)
        first == (listing.page - 1) * listing.limit
    IN /\ listing.total = Cardinality(Matching(listing))
       /\ listing.totalPages * listing.limit >= listing.total
       /\ (listing.totalPages - 1) * listing.limit < listing.total \/ listing.total = 0
       /\ listing.total = 0 => listing.totalPages = 0
       /\ Len(all) = listing.total
       /\ {all[i] : i \in 1..Len(all)} = Matching(listing)
       /\ \A i, j \in 1..Len(all) : i < j => all[i].createdAt >= all[j].createdAt
       /\ listing.users = [i \in 1..Len(listing.users) |-> all[first + i]]
       /\ Len(listing.users) =
            IF listing.total - first >= listing.limit THEN listing.limit
            ELSE IF listing.total > first THEN listing.total - first ELSE 0

C15_Witness ==
  /\ listing.page = 2 /\ listing.limit = 1 /\ listing.status = "active"
  /\ listing.total = 2 /\ Len(listing.read) = 3 /\ Len(listing.users) = 1
  /\ listing.read[1].createdAt < listing.read[3].createdAt
  /\ listing.users[1].email = listing.read[1].email

\* C16: a migration run whose connection attempt failed returns having read no
\* record of either store, with the users file and the Secondary Store as they
\* were when it started.
ConnectionFailed == mig.pc = "returned" /\ mig.connected = "no"

C16_FailedConnectionAbortsTheRun ==
  ConnectionFailed =>
    /\ mig.outcome = "aborted"
    /\ mig.fileUsers = <<>> /\ mig.mongoUsers = <<>>
    /\ mig.migrated = {} /\ mig.skipped = {} /\ mig.errored = {}
    /\ usersFile = mig.file0
    /\ mongoDocs = mig.mongo0

C16_Witness ==
  /\ ConnectionFailed /\ mig.mode = "to-mongo"
  /\ Len(usersFile) = 3 /\ mongoDocs = {}

\* C17: a migration run that connected has closed the connection when its run
\* method returns, on every path.
C17_ConnectionIsClosedOnReturn ==
  (mig.pc = "returned" /\ mig.connected = "yes") => mig.conn = "closed"

\* C18: after a successful createUser that met no file error, the persisted
\* stats are what the users file determines - totalUsers its number of records,
\* activeUsers its number of active records - and hold no totalRegistrations
\* counter, whose value is the number of times updateStats has run.
C18_StatsAreDerivedFromTheUsersFile ==
  \A p \in Procs :
    (Done(p) /\ resp[p].status = 201 /\ hist[p].faultAt = {}) =>
      /\ statsFile.totalUsers = Num(Len(usersFile))
      /\ statsFile.activeUsers = Num(activeCount(usersFile))
      /\ statsFile.totalRegistrations = Undefined

\* C19: within a createUser call the Secondary Store write and the stats update
\* are attempted only once the record is in the users file; a call whose
\* primary write failed has attempted neither and has left the Secondary Store
\* as it was.
FileWritten(p) == \E i \in 1..Len(usersFile) : usersFile[i] = call[p].newUser
PrimaryFailed(p) == Done(p) /\ Dual(p) /\ resp[p].status \in {409, 500}

C19_SecondaryWriteFollowsThePrimaryWrite ==
  \A p \in Procs : Dual(p) =>
    /\ (hist[p].mongoResult # "none" \/ hist[p].statsRuns > 0) => FileWritten(p)
    /\ PrimaryFailed(p) =>
          /\ ~FileWritten(p)
          /\ hist[p].mongoTries = 0 /\ hist[p].mongoResult = "none"
          /\ hist[p].statsRuns = 0
          /\ mongoDocs = hist[p].mongo0

C19_Witness ==
  \E p \in Procs :
    /\ PrimaryFailed(p) /\ "saveToFile" \in hist[p].faultAt /\ ~Present(p)
    /\ mongoConnected /\ mongoUp /\ emailMatch(call[p].email)
    /\ call[p].newUser.email \notin docEmails(mongoDocs)

\* C20: the document createUser wrote to the Secondary Store has the identifier
\* of the record it wrote to the users file.
C20_BothStoresHoldTheSameIdentifier ==
  \A p \in Procs :
    (Done(p) /\ Dual(p) /\ hist[p].mongoResult = "saved" /\ hist[p].faultAt = {}) =>
      \E d \in mongoDocs : d.email = call[p].newUser.email /\ d._id = call[p].newUser._id

\* A registration answered 201.
Registered(p) == Done(p) /\ call[p].kind \in {"dual", "file"} /\ resp[p].status = 201
\* The call has written the array it built to the users file.
Wrote(p) ==
  /\ call[p].kind \in {"dual", "file"}
  /\ call[p].users # <<>>
  /\ call[p].pc \notin {"saveToFile_write", "fdb_saveUsers"}

\* C21: under any interleaving of concurrent createUser calls, once every call
\* in flight has completed its stats step, the persisted totalUsers equals the
\* number of records in the users file.
C21_TotalUsersIsRecordCountOnceCallsAreDone ==
  (/\ \E p \in Procs : Registered(p)
   /\ \A p \in Procs : call[p].pc \in {"idle", "done"})
  => statsFile.totalUsers = Num(Len(usersFile))

\* C23: two concurrent registrations with different e-mails the users file does
\* not hold can both be answered with success while the file holds the record of
\* only one of them (C23_Witness): each call replaces the whole file by the
\* array it read plus its own record, so once a registration has been answered
\* with success the file is exactly the array one of the calls wrote, which need
\* not hold the record of another.
C23_UsersFileIsTheArrayOfOneWriter ==
  \A p \in Procs :
    Registered(p) =>
      \E q \in Procs : /\ Wrote(q)
                       /\ usersFile = call[q].users

C23_Witness ==
  \E p, q \in Procs :
    /\ p # q
    /\ Registered(p) /\ Registered(q)
    /\ toLowerCase(call[p].email) # toLowerCase(call[q].email)
    /\ ~Present(p) /\ ~Present(q)
    /\ hist[p].file0 = hist[q].file0
    /\ FileWritten(q) /\ ~FileWritten(p)
    /\ Len(usersFile) = Len(hist[p].file0) + 1

\* The call the crash interrupted.
Crashed(p) == call[p].pc = "crashed"

\* C22: when the process crashes after createUser's write of the users file and
\* before its write of the stats file, the users file still holds every record
\* written so far (the records it held when the interrupted call began, and
\* that call's record), and after the next successful createUser call the
\* persisted totalUsers again equals the number of records in the users file.
C22_CrashBetweenTheWritesIsRepairedByTheNextCall ==
  \A p \in Procs :
    Crashed(p) =>
      /\ FileWritten(p)
      /\ Len(hist[p].file0) < Len(usersFile)
      /\ \A i \in 1..Len(hist[p].file0) : usersFile[i] = hist[p].file0[i]
      /\ \A q \in Procs :
           (Registered(q) /\ hist[q].faultAt = {}) =>
             statsFile.totalUsers = Num(Len(usersFile))

C22_Witness ==
  \E p, q \in Procs :
    /\ Crashed(p)
    /\ Registered(q) /\ hist[q].faultAt = {}
    /\ hist[q].stats0.totalUsers # Num(Len(hist[q].file0))
    /\ FileWritten(p) /\ FileWritten(q)
    /\ statsFile.totalUsers = Num(Len(usersFile))

C24_FileServerAnswers201OnlyForAWrittenRecord ==
  \A p \in Procs :
    (Done(p) /\ call[p].kind = "file") =>
      /\ resp[p].status = 201 => FileWritten(p)
      /\ "fdb_saveUsers" \in hist[p].faultAt => resp[p].status # 201

\* C25: FileDatabase.createUser never removes records from the users file:
\* every record the file held when the call began is still there afterwards,
\* also when reading or parsing the file fails during the call.
C25_FileServerKeepsExistingRecords ==
  \A p \in Procs :
    (call[p].kind = "file" /\ call[p].pc # "idle") =>
      \A i \in 1..Len(hist[p].file0) :
        \E j \in 1..Len(usersFile) : usersFile[j] = hist[p].file0[i]

\* A to-file run has written the users file directly after a to-mongo run that
\* migrated every record of the file into a collection holding nothing else.
RoundTripFinished ==
  /\ SyncSucceeded
  /\ prevRun.valid
  /\ prevRun.migrated = fileEmails(prevRun.file)
  /\ docEmails(prevRun.mongoAfter) = prevRun.migrated

\* C26: migrating a users file to the Secondary Store and then syncing the
\* Secondary Store back to the file gives a users file with the same e-mails
\* and, for each e-mail, the same password hash: the stored hash is carried
\* through unchanged and not hashed again.
C26_MigrationRoundTripKeepsEmailsAndHashes ==
  RoundTripFinished =>
    /\ fileEmails(usersFile) = fileEmails(prevRun.file)
    /\ \A i \in 1..Len(usersFile), j \in 1..Len(prevRun.file) :
         usersFile[i].email = prevRun.file[j].email =>
           usersFile[i].password = prevRun.file[j].password

\* The to-mongo run is in its loop or has printed its summary.
InLoop == mig.mode = "to-mongo" /\ mig.pc \in {"findOne", "save"}
Summarized == mig.mode = "to-mongo" /\ mig.outcome = "summarized"
Classified == mig.migrated \cup mig.skipped \cup mig.errored

\* C27: in a to-mongo run that reaches its loop, every record read from the
\* users file is processed once and counted as exactly one of migrated, skipped
\* and errored; a failure on one record does not stop the records after it; at
\* the summary migrated + skipped + errored is the number of records read.
C27_EveryRecordIsClassifiedOnce ==
  /\ (InLoop \/ Summarized) =>
       /\ mig.migrated \cap mig.skipped = {}
       /\ mig.migrated \cap mig.errored = {}
       /\ mig.skipped \cap mig.errored = {}
  /\ InLoop => Classified = {mig.fileUsers[k].email : k \in 1..(mig.i - 1)}
  /\ Summarized =>
       /\ Classified = fileEmails(mig.fileUsers)
       /\ Cardinality(mig.migrated) + Cardinality(mig.skipped)
            + Cardinality(mig.errored) = Len(mig.fileUsers)

C27_Witness ==
  /\ Summarized
  /\ Len(mig.fileUsers) = 3
  /\ mig.fileUsers[1].email \in mig.skipped
  /\ mig.fileUsers[2].email \in mig.errored
  /\ mig.fileUsers[3].email \in mig.migrated

\* C30: in the dual register route an optional text field sent as the empty
\* string does not cause the request to be rejected: a payload that is valid
\* otherwise passes preprocessFormData and the validation, and the field is
\* persisted as null.
C30_EmptyOptionalFieldIsAccepted ==
  \A p \in Procs :
    (/\ Done(p) /\ Dual(p)
     /\ call[p].address = JsString("")
     /\ registrationSchema(preprocessFormData(call[p].terms))) =>
      /\ resp[p].status # 400
      /\ resp[p].status = 201 => call[p].newAddress = JsNull

\* C29: once the whole schema configuration has been applied, the JSON
\* serialisation of a User document never contains the password field; so the
\* user GET /api/users/:id of the MongoDB routes answers with has none.
C29_SerializedUserHasNoPassword ==
  \A p \in Procs :
    (Done(p) /\ call[p].kind = "get" /\ resp[p].status = 200) =>
      "password" \notin DOMAIN resp[p].user

====
